---- MODULE Spec2Model ----
(***************************************************************************)
(* Model of the slide navigation engine (src/slides/js/slide-engine.js).  *)
(*                                                                         *)
(* The engine is a single-threaded, event-driven controller.  Every       *)
(* action below is one run-to-completion task of the browser event loop:  *)
(* the DOMContentLoaded callback, a direct call of a public method, an    *)
(* input event handler, or a timer callback.                               *)
(*                                                                         *)
(* Representation choices:                                                 *)
(*  - a DOM section is identified by its position 0..n-1 in the document; *)
(*    `sections` is the captured array (a sequence, so the JavaScript     *)
(*    sections[i] is sections[i+1] here);                                  *)
(*  - a JavaScript value that may be undefined is a sequence of length    *)
(*    0 (undefined) or 1 (the number);                                     *)
(*  - the progress width ((i+1)/n)*100 is the exact fraction <<p, q>>;    *)
(*  - the counter markup is the sequence of its tokens.                    *)
(***************************************************************************)
EXTENDS Integers, Sequences, FiniteSets, TLC

\* ------------------------------------------------------------------ bounds
MaxSections == 3

\* Largest number of sections of a file served to the export script.
MaxFileSections == 2

\* Targets of direct goTo calls: negative, in range, and beyond the end.
Targets == -1 .. (MaxSections + 1)

\* ------------------------------------------------------------- input sets
Keys == {"ArrowRight", "ArrowDown", " ", "PageDown",
         "ArrowLeft", "ArrowUp", "PageUp",
         "Home", "End", "f", "F", "Enter"}

\* <<viewport width, clientX, target is inside an interactive element>>
\* of the clicks that are tried.
ClickPoints == {<<1000, 800, FALSE>>, <<1000, 200, FALSE>>,
                <<1000, 500, FALSE>>, <<1000, 650, FALSE>>,
                <<1000, 651, FALSE>>, <<1000, 350, FALSE>>,
                <<1000, 349, FALSE>>, <<20, 13, FALSE>>, <<20, 7, FALSE>>,
                <<1000, 800, TRUE>>, <<1000, 200, TRUE>>,
                <<1000, 500, TRUE>>}

\* Touch coordinates <<clientX, clientY>>.
TouchStarts == {<<300, 200>>}
TouchEnds   == {<<100, 210>>, <<290, 210>>, <<250, 200>>, <<249, 200>>,
                <<200, 300>>, <<500, 210>>}

VARIABLES
  phase,            \* "constructed" (before DOMContentLoaded) or "ready"
  docSections,      \* number of .slide-section elements in the document
  hasFill,          \* the document has a .progress-fill element
  hasCounter,       \* the document has a .page-counter element
  sections,         \* this.sections
  totalSections,    \* this.totalSections (<<>> while undefined)
  currentIndex,     \* this.currentIndex
  isTransitioning,  \* this.isTransitioning
  active,           \* sections carrying the class 'active'
  timers,           \* pending setTimeout callbacks
  fillWidth,        \* .progress-fill style.width, <<>> while never written
  counterHTML,      \* .page-counter innerHTML, <<>> while never written
  animated,         \* sections whose enter animation was last re-triggered
  listeners,        \* keydown/click/touch listeners are installed
  startX, startY,   \* closure variables of setupTouch
  fullscreen,       \* document.fullscreenElement is set
  error,            \* what the last task raised: "none", "TypeError",
                    \* "UnhandledRejection"
  defaultPrevented, \* the last key event had preventDefault() called
  \* history variables (observations, never read by the engine)
  lastCall,         \* the last task that ran
  outcome,          \* "accepted" / "ignored" for the last request, else "none"
  pendingTarget,    \* target of the most recent accepted goTo, -1 if none
  req,              \* last request issued while the lock was clear
  scenario,         \* progress through the script next,next,last,prev
  \* the export script (src/slides/export-pptx.js)
  pc,               \* position of main(): "start", "chapter", "file",
                    \* "section", "createPptx", "finally", "cleanup", "done"
  docs,             \* number of .slide-section elements of each served file
  server,           \* the static file server: "none", "listening", "closed"
  browser,          \* the headless browser: "none", "open", "closed"
  screenshotsDir,   \* SCREENSHOTS_DIR exists
  disk,             \* the image files in SCREENSHOTS_DIR, as <<path, image>>
  chapterIdx,       \* position of `chapter` in CHAPTERS (1-based)
  fileIdx,          \* position of `file` in chapter.files (1-based)
  page,             \* the document shown by the browser page
  sectionCount,     \* captureSlide: sectionCount
  sectionIdx,       \* captureSlide: loop variable i
  screenshots,      \* captureSlide: screenshots
  allScreenshots,   \* main: allScreenshots of the current chapter
  decks,            \* the decks written to EXPORTS_DIR, in write order
  failure,          \* history: the step that threw, "none" if none did
  failedChapter     \* history: chapter in which it threw, 0 if none

navVars == <<currentIndex, isTransitioning, active, timers,
             fillWidth, counterHTML, animated>>

engineVars == <<phase, docSections, hasFill, hasCounter, sections,
                totalSections, currentIndex, isTransitioning, active, timers,
                fillWidth, counterHTML, animated, listeners, startX, startY,
                fullscreen, error, defaultPrevented, lastCall, outcome,
                pendingTarget, req, scenario>>

exportVars == <<pc, docs, server, browser, screenshotsDir, disk, chapterIdx,
                fileIdx, page, sectionCount, sectionIdx, screenshots,
                allScreenshots, decks, failure, failedChapter>>

vars == <<engineVars, exportVars>>

\* ------------------------------------------------------ JavaScript values
\* a >= b where b may be undefined/NaN: a comparison with NaN is false.
GE(a, b) == b # <<>> /\ a >= b[1]

\* b - 1 where b may be undefined: undefined - 1 is NaN.
Minus1(b) == IF b = <<>> THEN <<>> ELSE <<b[1] - 1>>

\* Array.from(document.querySelectorAll('.slide-section'))
QuerySections(n) == [i \in 1 .. n |-> i - 1]

\* sections[i] is an element (not undefined)
HasSection(i) == (i + 1) \in DOMAIN sections

\* ------------------------------------------------------------- the widgets
\* ((currentIndex + 1) / totalSections) * 100, as an exact fraction
Percent(idx, total) == <<(idx + 1) * 100, total>>

\* `<span class="current">${idx + 1}</span> / ${total}`
CounterMarkup(idx, total) ==
  <<"<span class=\"current\">", ToString(idx + 1), "</span>",
    " / ", ToString(total)>>

updateProgress(idx, total) ==
  fillWidth' = IF hasFill THEN Percent(idx, total) ELSE fillWidth

updateCounter(idx, total) ==
  counterHTML' = IF hasCounter THEN CounterMarkup(idx, total) ELSE counterHTML

animateSection(s) == animated' = {s}

\* -------------------------------------------------------- history records
NoCall == [op |-> "none", method |-> "none", key |-> "", t |-> 0,
           w |-> 0, x |-> 0, y |-> 0, inter |-> FALSE, granted |-> TRUE]

NoReq == [kind |-> "none", from |-> 0]

\* The scripted scenario of accepted actions on a document of
\* ScriptSections sections.
Script == <<"next", "next", "last", "prev">>

\* Index reached by each accepted action of the script, and its counter.
ScriptIndex == <<1, 2, 4, 3>>
ScriptText == <<"2", "3", "5", "4">>

\* The script's jump-to-last lands on index 4 = n - 1.
ScriptSections == ScriptIndex[3] + 1

NavKinds == {"next", "prev", "first", "last", "goTo"}

\* Observation of a task that dispatched to `kind`: the request and the
\* index it was issued at are remembered when the lock was clear (for a
\* direct goTo only the kind).
Monitor(kind) ==
  /\ req' = IF kind \in NavKinds /\ phase = "ready" /\ ~isTransitioning
              THEN [kind |-> kind,
                    from |-> IF kind = "goTo" THEN 0 ELSE currentIndex]
              ELSE req
  /\ scenario' = IF outcome' = "accepted" /\ docSections = ScriptSections
                   THEN IF /\ phase = "ready"
                           /\ scenario \in 0 .. (Len(Script) - 1)
                           /\ kind = Script[scenario + 1]
                          THEN scenario + 1
                          ELSE -1
                   ELSE scenario

\* ---------------------------------------------------------- the operations
\* A request that returns early: nothing is touched.
Ignore ==
  /\ UNCHANGED navVars
  /\ UNCHANGED pendingTarget
  /\ error' = "none"
  /\ outcome' = "ignored"

\* Faulty variant of goTo: the current section is not deactivated.
goTo_KeepsActive(index) ==
  IF \/ index = currentIndex
     \/ index < 0
     \/ GE(index, totalSections)
     \/ isTransitioning
    THEN Ignore
    ELSE /\ isTransitioning' = TRUE
         /\ outcome' = "accepted"
         /\ pendingTarget' = index
         /\ IF HasSection(currentIndex)
              THEN /\ UNCHANGED active
                   /\ timers' = timers \cup {[kind |-> "show", index |-> index]}
                   /\ error' = "none"
              ELSE /\ UNCHANGED <<active, timers>>
                   /\ error' = "TypeError"
         /\ UNCHANGED <<currentIndex, fillWidth, counterHTML, animated>>

\* Faulty variant of goTo: the transition lock is not consulted.
goTo_NoLock(index) ==
  IF \/ index = currentIndex
     \/ index < 0
     \/ GE(index, totalSections)
    THEN Ignore
    ELSE /\ isTransitioning' = TRUE
         /\ outcome' = "accepted"
         /\ pendingTarget' = index
         /\ IF HasSection(currentIndex)
              THEN /\ active' = active \ {sections[currentIndex + 1]}
                   /\ timers' = timers \cup {[kind |-> "show", index |-> index]}
                   /\ error' = "none"
              ELSE /\ UNCHANGED <<active, timers>>
                   /\ error' = "TypeError"
         /\ UNCHANGED <<currentIndex, fillWidth, counterHTML, animated>>

\* Faulty variant of goTo: targets beyond the last section are not rejected.
goTo_NoUpperBound(index) ==
  IF \/ index = currentIndex
     \/ index < 0
     \/ isTransitioning
    THEN Ignore
    ELSE /\ isTransitioning' = TRUE
         /\ outcome' = "accepted"
         /\ pendingTarget' = index
         /\ IF HasSection(currentIndex)
              THEN /\ active' = active \ {sections[currentIndex + 1]}
                   /\ timers' = timers \cup {[kind |-> "show", index |-> index]}
                   /\ error' = "none"
              ELSE /\ UNCHANGED <<active, timers>>
                   /\ error' = "TypeError"
         /\ UNCHANGED <<currentIndex, fillWidth, counterHTML, animated>>

\* Faulty variant of goTo: currentIndex is assigned when the request is
\* accepted instead of in the timer callback.
goTo_EagerIndex(index) ==
  IF \/ index = currentIndex
     \/ index < 0
     \/ GE(index, totalSections)
     \/ isTransitioning
    THEN Ignore
    ELSE /\ isTransitioning' = TRUE
         /\ outcome' = "accepted"
         /\ pendingTarget' = index
         /\ IF HasSection(currentIndex)
              THEN /\ active' = active \ {sections[currentIndex + 1]}
                   /\ timers' = timers \cup {[kind |-> "show", index |-> index]}
                   /\ currentIndex' = index
                   /\ error' = "none"
              ELSE /\ UNCHANGED <<active, timers, currentIndex>>
                   /\ error' = "TypeError"
         /\ UNCHANGED <<fillWidth, counterHTML, animated>>

\* Faulty variant of goTo: negative targets are not rejected.
goTo_NoLowerBound(index) ==
  IF \/ index = currentIndex
     \/ GE(index, totalSections)
     \/ isTransitioning
    THEN Ignore
    ELSE /\ isTransitioning' = TRUE
         /\ outcome' = "accepted"
         /\ pendingTarget' = index
         /\ IF HasSection(currentIndex)
              THEN /\ active' = active \ {sections[currentIndex + 1]}
                   /\ timers' = timers \cup {[kind |-> "show", index |-> index]}
                   /\ error' = "none"
              ELSE /\ UNCHANGED <<active, timers>>
                   /\ error' = "TypeError"
         /\ UNCHANGED <<currentIndex, fillWidth, counterHTML, animated>>

\* goTo(index), lines 120-131: validation, lock, deactivation, first timer.
goTo(index) ==
  IF \/ index = currentIndex
     \/ index < 0
     \/ GE(index, totalSections)
     \/ isTransitioning
    THEN Ignore
    ELSE /\ isTransitioning' = TRUE
         /\ outcome' = "accepted"
         /\ pendingTarget' = index
         /\ IF HasSection(currentIndex)
              THEN /\ active' = active \ {sections[currentIndex + 1]}
                   /\ timers' = timers \cup {[kind |-> "show", index |-> index]}
                   /\ error' = "none"
              ELSE \* currentSection is undefined: .classList throws
                   /\ UNCHANGED <<active, timers>>
                   /\ error' = "TypeError"
         /\ UNCHANGED <<currentIndex, fillWidth, counterHTML, animated>>

next ==
  IF isTransitioning \/ GE(currentIndex, Minus1(totalSections))
    THEN Ignore
    ELSE goTo(currentIndex + 1)

\* Faulty variant of prev: wraps around from the first to the last section.
prev_Wrap ==
  IF isTransitioning
    THEN Ignore
    ELSE IF currentIndex > 0
      THEN goTo(currentIndex - 1)
      ELSE IF totalSections = <<>>
        THEN Ignore
        ELSE goTo(totalSections[1] - 1)

prev ==
  IF isTransitioning \/ currentIndex <= 0
    THEN Ignore
    ELSE goTo(currentIndex - 1)

\* toggleFullscreen; ok says whether the browser grants the request.
\* Only the requestFullscreen() promise has a catch handler.
toggleFullscreen(ok) ==
  /\ UNCHANGED navVars
  /\ UNCHANGED pendingTarget
  /\ outcome' = "none"
  /\ IF ~fullscreen
       THEN /\ fullscreen' = ok
            /\ error' = "none"
       ELSE /\ fullscreen' = ~ok
            /\ error' = IF ok THEN "none" ELSE "UnhandledRejection"

\* ------------------------------------------------------- the input tables
\* Faulty variant of the key table: PageUp and PageDown are exchanged.
KeyMethod_Swapped(key) ==
  CASE key \in {"ArrowRight", "ArrowDown", " ", "PageUp"} -> "next"
    [] key \in {"ArrowLeft", "ArrowUp", "PageDown"}       -> "prev"
    [] key = "Home"                                       -> "first"
    [] key = "End"                                        -> "last"
    [] key \in {"f", "F"}                                 -> "fullscreen"
    [] OTHER                                              -> "none"

\* the switch of handleKeydown: which method a key dispatches to
KeyMethod(key) ==
  CASE key \in {"ArrowRight", "ArrowDown", " ", "PageDown"} -> "next"
    [] key \in {"ArrowLeft", "ArrowUp", "PageUp"}           -> "prev"
    [] key = "Home"                                         -> "first"
    [] key = "End"                                          -> "last"
    [] key \in {"f", "F"}                                   -> "fullscreen"
    [] OTHER                                                -> "none"

\* e.preventDefault() is called in the four navigation cases only
KeyPreventsDefault(key) ==
  KeyMethod(key) \in {"next", "prev", "first", "last"}

\* Faulty variant of the click zones: the boundaries belong to the zones.
ClickMethod_Inclusive(w, x, inter) ==
  IF inter THEN "none"
  ELSE IF x * 20 >= w * 13 THEN "next"
  ELSE IF x * 20 <= w * 7 THEN "prev"
  ELSE "none"

\* handleClick: x > width * 0.65, x < width * 0.35 (in twentieths)
ClickMethod(w, x, inter) ==
  IF inter THEN "none"
  ELSE IF x * 20 > w * 13 THEN "next"
  ELSE IF x * 20 < w * 7 THEN "prev"
  ELSE "none"

Abs(a) == IF a < 0 THEN -a ELSE a

\* Faulty variant of the swipe test: a displacement of exactly 50 counts.
SwipeMethod_Inclusive(sx, sy, ex, ey) ==
  LET diffX == sx - ex
      diffY == sy - ey
  IN IF Abs(diffX) > Abs(diffY) /\ Abs(diffX) >= 50
       THEN IF diffX > 0 THEN "next" ELSE "prev"
       ELSE "none"

\* the touchend listener of setupTouch
SwipeMethod(sx, sy, ex, ey) ==
  LET diffX == sx - ex
      diffY == sy - ey
  IN IF Abs(diffX) > Abs(diffY) /\ Abs(diffX) > 50
       THEN IF diffX > 0 THEN "next" ELSE "prev"
       ELSE "none"

\* Faulty variant of the dispatch: End jumps one past the last section.
Dispatch_LastOffByOne(method, ok) ==
  CASE method = "next"  -> next /\ UNCHANGED fullscreen
    [] method = "prev"  -> prev /\ UNCHANGED fullscreen
    [] method = "first" -> goTo(0) /\ UNCHANGED fullscreen
    [] method = "last"  -> goTo(totalSections[1]) /\ UNCHANGED fullscreen
    [] method = "fullscreen" -> toggleFullscreen(ok)
    [] OTHER -> /\ UNCHANGED navVars
                /\ UNCHANGED <<pendingTarget, fullscreen>>
                /\ error' = "none"
                /\ outcome' = "none"

\* Run the method a handler selected.
Dispatch(method, ok) ==
  CASE method = "next"  -> next /\ UNCHANGED fullscreen
    [] method = "prev"  -> prev /\ UNCHANGED fullscreen
    [] method = "first" -> goTo(0) /\ UNCHANGED fullscreen
    [] method = "last"  -> goTo(totalSections[1] - 1) /\ UNCHANGED fullscreen
    [] method = "fullscreen" -> toggleFullscreen(ok)
    [] OTHER -> /\ UNCHANGED navVars
                /\ UNCHANGED <<pendingTarget, fullscreen>>
                /\ error' = "none"
                /\ outcome' = "none"

docVars == <<phase, docSections, hasFill, hasCounter, sections,
             totalSections, listeners>>

\* --------------------------------------------------- the export script
\* CHAPTERS, lines 19-69.  A file is identified by the number NN of its
\* base name slideNN-...; the base names of the 19 files are distinct.
CHAPTERS ==
  << [name |-> "Chapter1-Foundations",    files |-> <<1, 2, 3, 4>>],
     [name |-> "Chapter2-FirstProjects",  files |-> <<5, 6, 7, 8, 9>>],
     [name |-> "Chapter3-WebApps",        files |-> <<10, 11, 12, 13>>],
     [name |-> "Chapter4-UIDesign",       files |-> <<15, 16, 17, 18>>],
     [name |-> "Chapter5-DeployWorkflow", files |-> <<19, 20>>] >>

Files ==
  UNION {{CHAPTERS[c].files[k] : k \in DOMAIN CHAPTERS[c].files} :
           c \in DOMAIN CHAPTERS}

\* The served documents: the number of .slide-section elements of each
\* file.  The counts vary from file to file along one of these patterns.
DocSets ==
  {[f \in Files |-> (a + b * f) % (MaxFileSections + 1)] :
     a \in 0 .. MaxFileSections, b \in 0 .. MaxFileSections}

NoDocs == [f \in Files |-> 0]

\* The page before any navigation.
BlankPage == [file |-> 0, active |-> {}, fill |-> <<>>, counter |-> <<>>]

\* The document of file f after page.goto and the waits of lines 117-121:
\* the engine loaded by the document has initialised itself on it.
LoadedPage(f, n) ==
  [file    |-> f,
   active  |-> IF n = 0 THEN {} ELSE {0},
   fill    |-> IF hasFill /\ n > 0 THEN Percent(0, n) ELSE <<>>,
   counter |-> IF hasCounter /\ n > 0 THEN CounterMarkup(0, n) ELSE <<>>]

\* ((idx + 1) / sections.length * 100), line 148, as an exact fraction
ExportPercent(idx, len) == <<(idx + 1) * 100, len>>

\* Faulty variant of the counter markup of the export: the index is shown
\* 0-based.
ExportCounterMarkup_ZeroBased(idx, len) ==
  <<"<span class=\"current\">", ToString(idx), "</span>",
    " / ", ToString(len)>>

\* `<span class="current">${idx + 1}</span> / ${sections.length}`, line 152
ExportCounterMarkup(idx, len) ==
  <<"<span class=\"current\">", ToString(idx + 1), "</span>",
    " / ", ToString(len)>>

\* The page.evaluate of lines 133-153 on a document of len sections: the
\* class is removed from every section and added to sections[idx]; the
\* widgets are written when they exist.
ForceSection(dom, idx, len) ==
  [dom EXCEPT
     !.active  = (@ \ (0 .. (len - 1))) \cup {idx},
     !.fill    = IF hasFill THEN ExportPercent(idx, len) ELSE @,
     !.counter = IF hasCounter THEN ExportCounterMarkup(idx, len) ELSE @]

\* String(n).padStart(2, '0')
PadStart2(n) == IF n < 10 THEN "0" \o ToString(n) ELSE ToString(n)

\* `${slideBaseName}_section${String(idx + 1).padStart(2, '0')}.png`
ScreenshotPath(base, idx) == <<base, "_section", PadStart2(idx + 1), ".png">>

\* Writing a file replaces the file of the same path.
WriteFile(path, image) ==
  {d \in disk : d[1] # path} \cup {<<path, image>>}

FileExists(path) == \E d \in disk : d[1] = path

\* fs.readFileSync(imgPath)
ReadFile(path) == (CHOOSE d \in disk : d[1] = path)[2]

\* ------------------------------------------------------------------ Init
\* The state after `new SlideEngine()`: the constructor has run, the
\* DOMContentLoaded listener is registered and has not fired yet.  The
\* document has one of the given numbers of sections.
InitWith(counts) ==
  /\ phase = "constructed"
  /\ docSections \in counts
  /\ hasFill \in BOOLEAN
  /\ hasCounter \in BOOLEAN
  /\ sections = <<>>
  /\ totalSections = <<>>
  /\ currentIndex = 0
  /\ isTransitioning = FALSE
  /\ active = {}
  /\ timers = {}
  /\ fillWidth = <<>>
  /\ counterHTML = <<>>
  /\ animated = {}
  /\ listeners = FALSE
  /\ startX = 0
  /\ startY = 0
  /\ fullscreen = FALSE
  /\ error = "none"
  /\ defaultPrevented = FALSE
  /\ lastCall = NoCall
  /\ outcome = "none"
  /\ pendingTarget = -1
  /\ req = NoReq
  /\ scenario = 0

\* The export script before main() runs, the served files being one of
\* the given assignments of section counts.
ExportStart(docSets) ==
  /\ pc = "start"
  /\ docs \in docSets
  /\ server = "none"
  /\ browser = "none"
  /\ screenshotsDir = FALSE
  /\ disk = {}
  /\ chapterIdx = 0
  /\ fileIdx = 0
  /\ page = BlankPage
  /\ sectionCount = 0
  /\ sectionIdx = 0
  /\ screenshots = <<>>
  /\ allScreenshots = <<>>
  /\ decks = <<>>
  /\ failure = "none"
  /\ failedChapter = 0

\* The engine alone: the export script is not run.
Init == InitWith(0 .. MaxSections) /\ ExportStart({NoDocs})

\* The same engine, where the document may also be the one of the script.
ScenarioInit ==
  InitWith((0 .. MaxSections) \cup {ScriptSections}) /\ ExportStart({NoDocs})

\* The export script alone: no input reaches the engine of the window the
\* model follows.
ExportInit == InitWith({0}) /\ ExportStart(DocSets)

\* --------------------------------------------------------------- actions
\* The DOMContentLoaded callback of init(), lines 15-37.
DOMContentLoaded ==
  /\ phase = "constructed"
  /\ phase' = "ready"
  /\ sections' = QuerySections(docSections)
  /\ totalSections' = <<docSections>>
  /\ IF docSections = 0
       THEN UNCHANGED <<active, fillWidth, counterHTML, listeners, animated>>
       ELSE /\ active' = active \cup {0}
            /\ updateProgress(currentIndex, docSections)
            /\ updateCounter(currentIndex, docSections)
            /\ listeners' = TRUE
            /\ animateSection(0)
  /\ UNCHANGED <<docSections, hasFill, hasCounter, currentIndex,
                 isTransitioning, timers, startX, startY, fullscreen,
                 pendingTarget, req, scenario>>
  /\ error' = "none"
  /\ defaultPrevented' = FALSE
  /\ outcome' = "none"
  /\ lastCall' = [NoCall EXCEPT !.op = "DOMContentLoaded"]
  /\ UNCHANGED exportVars

\* A direct call slideEngine.next()
CallNext ==
  /\ next
  /\ lastCall' = [NoCall EXCEPT !.op = "next", !.method = "next"]
  /\ Monitor("next")
  /\ defaultPrevented' = FALSE
  /\ UNCHANGED <<docVars, startX, startY, fullscreen>>
  /\ UNCHANGED exportVars

\* A direct call slideEngine.prev()
CallPrev ==
  /\ prev
  /\ lastCall' = [NoCall EXCEPT !.op = "prev", !.method = "prev"]
  /\ Monitor("prev")
  /\ defaultPrevented' = FALSE
  /\ UNCHANGED <<docVars, startX, startY, fullscreen>>
  /\ UNCHANGED exportVars

\* A direct call slideEngine.goTo(t)
CallGoTo(t) ==
  /\ goTo(t)
  /\ lastCall' = [NoCall EXCEPT !.op = "goTo", !.method = "goTo", !.t = t]
  /\ Monitor("goTo")
  /\ defaultPrevented' = FALSE
  /\ UNCHANGED <<docVars, startX, startY, fullscreen>>
  /\ UNCHANGED exportVars

\* A direct call slideEngine.toggleFullscreen()
CallToggleFullscreen(ok) ==
  /\ toggleFullscreen(ok)
  /\ lastCall' = [NoCall EXCEPT !.op = "toggleFullscreen",
                                !.method = "fullscreen", !.granted = ok]
  /\ Monitor("fullscreen")
  /\ defaultPrevented' = FALSE
  /\ UNCHANGED <<docVars, startX, startY>>
  /\ UNCHANGED exportVars

\* handleKeydown(e) with e.key = key
handleKeydown(key, ok) ==
  /\ listeners
  /\ Dispatch(KeyMethod(key), ok)
  /\ defaultPrevented' = KeyPreventsDefault(key)
  /\ lastCall' = [NoCall EXCEPT !.op = "keydown", !.method = KeyMethod(key),
                                !.key = key, !.granted = ok]
  /\ Monitor(KeyMethod(key))
  /\ UNCHANGED <<docVars, startX, startY>>
  /\ UNCHANGED exportVars

\* handleClick(e) with window.innerWidth = w, e.clientX = x and
\* inter = e.target.closest('a, button, input, select, textarea') # null
handleClick(w, x, inter) ==
  /\ listeners
  /\ Dispatch(ClickMethod(w, x, inter), TRUE)
  /\ defaultPrevented' = FALSE
  /\ lastCall' = [NoCall EXCEPT !.op = "click",
                                !.method = ClickMethod(w, x, inter),
                                !.w = w, !.x = x, !.inter = inter]
  /\ Monitor(ClickMethod(w, x, inter))
  /\ UNCHANGED <<docVars, startX, startY>>
  /\ UNCHANGED exportVars

\* the touchstart listener
touchstart(x, y) ==
  /\ listeners
  /\ startX' = x
  /\ startY' = y
  /\ UNCHANGED navVars
  /\ UNCHANGED <<docVars, fullscreen, pendingTarget, req, scenario>>
  /\ error' = "none"
  /\ outcome' = "none"
  /\ defaultPrevented' = FALSE
  /\ lastCall' = [NoCall EXCEPT !.op = "touchstart", !.x = x, !.y = y]
  /\ UNCHANGED exportVars

\* the touchend listener
touchend(x, y) ==
  /\ listeners
  /\ Dispatch(SwipeMethod(startX, startY, x, y), TRUE)
  /\ defaultPrevented' = FALSE
  /\ lastCall' = [NoCall EXCEPT !.op = "touchend",
                                !.method = SwipeMethod(startX, startY, x, y),
                                !.x = x, !.y = y]
  /\ Monitor(SwipeMethod(startX, startY, x, y))
  /\ UNCHANGED <<docVars, startX, startY>>
  /\ UNCHANGED exportVars

\* Frame of a timer task.
TimerFrame ==
  /\ UNCHANGED <<docVars, startX, startY, fullscreen, pendingTarget, req,
                 scenario>>
  /\ outcome' = "none"
  /\ defaultPrevented' = FALSE
  /\ UNCHANGED exportVars

\* Faulty variant of the first timer callback: the section that was current
\* is activated again instead of the target.
ShowCallback_Reactivate(tm) ==
  /\ tm.kind = "show"
  /\ IF HasSection(tm.index)
       THEN /\ active' = active \cup {sections[currentIndex + 1]}
            /\ animateSection(sections[currentIndex + 1])
            /\ currentIndex' = tm.index
            /\ updateProgress(tm.index, totalSections[1])
            /\ updateCounter(tm.index, totalSections[1])
            /\ timers' = (timers \ {tm}) \cup {[kind |-> "unlock", index |-> -1]}
            /\ error' = "none"
       ELSE /\ timers' = timers \ {tm}
            /\ UNCHANGED <<active, animated, currentIndex, fillWidth,
                           counterHTML>>
            /\ error' = "TypeError"
  /\ UNCHANGED isTransitioning
  /\ TimerFrame
  /\ lastCall' = [NoCall EXCEPT !.op = "timerShow", !.t = tm.index]

\* Faulty variant of the first timer callback: the index is stored 1-based.
ShowCallback_OneBased(tm) ==
  /\ tm.kind = "show"
  /\ IF HasSection(tm.index)
       THEN /\ active' = active \cup {sections[tm.index + 1]}
            /\ animateSection(sections[tm.index + 1])
            /\ currentIndex' = tm.index + 1
            /\ updateProgress(tm.index, totalSections[1])
            /\ updateCounter(tm.index, totalSections[1])
            /\ timers' = (timers \ {tm}) \cup {[kind |-> "unlock", index |-> -1]}
            /\ error' = "none"
       ELSE /\ timers' = timers \ {tm}
            /\ UNCHANGED <<active, animated, currentIndex, fillWidth,
                           counterHTML>>
            /\ error' = "TypeError"
  /\ UNCHANGED isTransitioning
  /\ TimerFrame
  /\ lastCall' = [NoCall EXCEPT !.op = "timerShow", !.t = tm.index]

\* Faulty variant of the first timer callback: the widgets are recomputed
\* before currentIndex is assigned.
ShowCallback_StaleWidgets(tm) ==
  /\ tm.kind = "show"
  /\ IF HasSection(tm.index)
       THEN /\ active' = active \cup {sections[tm.index + 1]}
            /\ animateSection(sections[tm.index + 1])
            /\ updateProgress(currentIndex, totalSections[1])
            /\ updateCounter(currentIndex, totalSections[1])
            /\ currentIndex' = tm.index
            /\ timers' = (timers \ {tm}) \cup {[kind |-> "unlock", index |-> -1]}
            /\ error' = "none"
       ELSE /\ timers' = timers \ {tm}
            /\ UNCHANGED <<active, animated, currentIndex, fillWidth,
                           counterHTML>>
            /\ error' = "TypeError"
  /\ UNCHANGED isTransitioning
  /\ TimerFrame
  /\ lastCall' = [NoCall EXCEPT !.op = "timerShow", !.t = tm.index]

\* The first (200 ms) timer callback of goTo, lines 132-142; tm.index is
\* the index captured by the closure (nextSection is sections[index]).
ShowCallback(tm) ==
  /\ tm.kind = "show"
  /\ IF HasSection(tm.index)
       THEN /\ active' = active \cup {sections[tm.index + 1]}
            /\ animateSection(sections[tm.index + 1])
            /\ currentIndex' = tm.index
            /\ updateProgress(tm.index, totalSections[1])
            /\ updateCounter(tm.index, totalSections[1])
            /\ timers' = (timers \ {tm}) \cup {[kind |-> "unlock", index |-> -1]}
            /\ error' = "none"
       ELSE \* nextSection is undefined: .classList throws
            /\ timers' = timers \ {tm}
            /\ UNCHANGED <<active, animated, currentIndex, fillWidth,
                           counterHTML>>
            /\ error' = "TypeError"
  /\ UNCHANGED isTransitioning
  /\ TimerFrame
  /\ lastCall' = [NoCall EXCEPT !.op = "timerShow", !.t = tm.index]

TimerShow == \E tm \in timers : ShowCallback(tm)

\* The second (300 ms) timer callback, lines 139-141.
TimerUnlock ==
  \E tm \in timers :
    /\ tm.kind = "unlock"
    /\ isTransitioning' = FALSE
    /\ timers' = timers \ {tm}
    /\ UNCHANGED <<currentIndex, active, fillWidth, counterHTML, animated>>
    /\ TimerFrame
    /\ error' = "none"
    /\ lastCall' = [NoCall EXCEPT !.op = "timerUnlock"]

Next ==
  \/ DOMContentLoaded
  \/ CallNext
  \/ CallPrev
  \/ \E t \in Targets : CallGoTo(t)
  \/ \E ok \in BOOLEAN : CallToggleFullscreen(ok)
  \/ \E key \in Keys :
       \E ok \in (IF KeyMethod(key) = "fullscreen" THEN BOOLEAN ELSE {TRUE}) :
         handleKeydown(key, ok)
  \/ \E p \in ClickPoints : handleClick(p[1], p[2], p[3])
  \/ \E p \in TouchStarts : touchstart(p[1], p[2])
  \/ \E p \in TouchEnds : touchend(p[1], p[2])
  \/ TimerShow
  \/ TimerUnlock

Spec == Init /\ [][Next]_vars

ScenarioSpec == ScenarioInit /\ [][Next]_vars

\* Timers that are scheduled fire; the document eventually becomes ready.
LiveSpec ==
  /\ Spec
  /\ WF_vars(TimerShow)
  /\ WF_vars(TimerUnlock)
  /\ WF_vars(DOMContentLoaded)

\* ------------------------------------------- actions of the export script
ExportFrame == UNCHANGED <<engineVars, docs>>

\* An awaited step of the try block rejects or throws: control passes to
\* the catch clause (lines 229-230), which logs, and on to finally.
Throw(kind) ==
  /\ failure' = kind
  /\ failedChapter' = chapterIdx
  /\ pc' = "finally"

\* main, lines 198-212: directories, server, browser, page.
mainLaunch ==
  /\ pc = "start"
  /\ screenshotsDir' = TRUE
  /\ server' = "listening"
  /\ browser' = "open"
  /\ chapterIdx' = 1
  /\ pc' = "chapter"
  /\ UNCHANGED <<disk, fileIdx, page, sectionCount, sectionIdx, screenshots,
                 allScreenshots, decks, failure, failedChapter>>
  /\ ExportFrame

\* Faulty variant of the chapter loop head: allScreenshots is not reset.
mainChapter_NoReset ==
  /\ pc = "chapter"
  /\ IF chapterIdx > Len(CHAPTERS)
       THEN /\ pc' = "finally"
            /\ UNCHANGED <<allScreenshots, fileIdx>>
       ELSE /\ UNCHANGED allScreenshots
            /\ fileIdx' = 1
            /\ pc' = IF Len(CHAPTERS[chapterIdx].files) = 0
                       THEN "createPptx" ELSE "file"
  /\ UNCHANGED <<server, browser, screenshotsDir, disk, chapterIdx, page,
                 sectionCount, sectionIdx, screenshots, decks, failure,
                 failedChapter>>
  /\ ExportFrame

\* main, lines 215-219: the head of the chapter loop.
mainChapter ==
  /\ pc = "chapter"
  /\ IF chapterIdx > Len(CHAPTERS)
       THEN /\ pc' = "finally"
            /\ UNCHANGED <<allScreenshots, fileIdx>>
       ELSE /\ allScreenshots' = <<>>
            /\ fileIdx' = 1
            /\ pc' = IF Len(CHAPTERS[chapterIdx].files) = 0
                       THEN "createPptx" ELSE "file"
  /\ UNCHANGED <<server, browser, screenshotsDir, disk, chapterIdx, page,
                 sectionCount, sectionIdx, screenshots, decks, failure,
                 failedChapter>>
  /\ ExportFrame

\* captureSlide, lines 117-129: load the file, count its sections.
captureSlideLoad(ok) ==
  /\ pc = "file"
  /\ LET file == CHAPTERS[chapterIdx].files[fileIdx]
     IN IF ok
          THEN /\ page' = LoadedPage(file, docs[file])
               /\ sectionCount' = docs[file]
               /\ screenshots' = <<>>
               /\ sectionIdx' = 0
               /\ pc' = "section"
               /\ UNCHANGED <<failure, failedChapter>>
          ELSE /\ Throw("capture")
               /\ UNCHANGED <<page, sectionCount, screenshots, sectionIdx>>
  /\ UNCHANGED <<server, browser, screenshotsDir, disk, chapterIdx, fileIdx,
                 allScreenshots, decks>>
  /\ ExportFrame

\* captureSlide, lines 131-160: one iteration of the section loop.
captureSlideSection(ok) ==
  /\ pc = "section"
  /\ sectionIdx < sectionCount
  /\ IF ok
       THEN /\ page' = ForceSection(page, sectionIdx, sectionCount)
            /\ disk' = WriteFile(ScreenshotPath(page.file, sectionIdx), page')
            /\ screenshots' =
                 Append(screenshots, ScreenshotPath(page.file, sectionIdx))
            /\ sectionIdx' = sectionIdx + 1
            /\ UNCHANGED <<pc, failure, failedChapter>>
       ELSE /\ Throw("capture")
            /\ UNCHANGED <<page, disk, screenshots, sectionIdx>>
  /\ UNCHANGED <<server, browser, screenshotsDir, chapterIdx, fileIdx,
                 sectionCount, allScreenshots, decks>>
  /\ ExportFrame

\* captureSlide, line 162, and main, lines 219-224: the paths are returned
\* and appended; the file loop goes on.
captureSlideReturn ==
  /\ pc = "section"
  /\ sectionIdx >= sectionCount
  /\ allScreenshots' = allScreenshots \o screenshots
  /\ fileIdx' = fileIdx + 1
  /\ pc' = IF fileIdx + 1 > Len(CHAPTERS[chapterIdx].files)
             THEN "createPptx" ELSE "file"
  /\ UNCHANGED <<server, browser, screenshotsDir, disk, chapterIdx, page,
                 sectionCount, sectionIdx, screenshots, decks, failure,
                 failedChapter>>
  /\ ExportFrame

\* createPptx, lines 166-191, and main, lines 226-228: one slide per path,
\* in order, each with the image read from the path; ok is the outcome of
\* pptx.writeFile.  readFileSync throws when a path does not exist.
createPptx(ok) ==
  /\ pc = "createPptx"
  /\ IF ok /\ \A k \in DOMAIN allScreenshots : FileExists(allScreenshots[k])
       THEN /\ decks' = Append(decks,
                          [name   |-> CHAPTERS[chapterIdx].name,
                           slides |-> [k \in DOMAIN allScreenshots |->
                                         ReadFile(allScreenshots[k])]])
            /\ chapterIdx' = chapterIdx + 1
            /\ pc' = "chapter"
            /\ UNCHANGED <<failure, failedChapter>>
       ELSE /\ Throw("createPptx")
            /\ UNCHANGED <<decks, chapterIdx>>
  /\ UNCHANGED <<server, browser, screenshotsDir, disk, fileIdx, page,
                 sectionCount, sectionIdx, screenshots, allScreenshots>>
  /\ ExportFrame

\* Faulty variant of the finally clause: the server is left listening.
mainFinally_KeepsServer ==
  /\ pc = "finally"
  /\ browser' = "closed"
  /\ UNCHANGED server
  /\ pc' = "cleanup"
  /\ UNCHANGED <<screenshotsDir, disk, chapterIdx, fileIdx, page,
                 sectionCount, sectionIdx, screenshots, allScreenshots, decks,
                 failure, failedChapter>>
  /\ ExportFrame

\* main, lines 231-234: the finally clause.
mainFinally ==
  /\ pc = "finally"
  /\ browser' = "closed"
  /\ server' = "closed"
  /\ pc' = "cleanup"
  /\ UNCHANGED <<screenshotsDir, disk, chapterIdx, fileIdx, page,
                 sectionCount, sectionIdx, screenshots, allScreenshots, decks,
                 failure, failedChapter>>
  /\ ExportFrame

\* main, lines 236-240: the screenshot directory is removed.
mainCleanup ==
  /\ pc = "cleanup"
  /\ screenshotsDir' = FALSE
  /\ disk' = {}
  /\ pc' = "done"
  /\ UNCHANGED <<server, browser, chapterIdx, fileIdx, page, sectionCount,
                 sectionIdx, screenshots, allScreenshots, decks, failure,
                 failedChapter>>
  /\ ExportFrame

ExportNext ==
  \/ mainLaunch
  \/ mainChapter
  \/ \E ok \in BOOLEAN : captureSlideLoad(ok)
  \/ \E ok \in BOOLEAN : captureSlideSection(ok)
  \/ captureSlideReturn
  \/ \E ok \in BOOLEAN : createPptx(ok)
  \/ mainFinally
  \/ mainCleanup

ExportSpec == ExportInit /\ [][ExportNext]_vars

\* main() is a single task chain: each step runs when the previous one
\* has settled.
ExportLiveSpec == ExportSpec /\ WF_vars(ExportNext)

TypeOK ==
  /\ phase \in {"constructed", "ready"}
  /\ currentIndex \in Int
  /\ isTransitioning \in BOOLEAN
  /\ active \subseteq 0 .. MaxSections

\* =====================================================================
\* Properties
\* =====================================================================
\* The engine has initialised on a document with at least one section.
Ready == phase = "ready" /\ docSections >= 1

ShowPending == \E tm \in timers : tm.kind = "show"

ShowTimer(t) == [kind |-> "show", index |-> t]

\* The text of the counter: its markup without the tags.
TextContent(html) ==
  SelectSeq(html, LAMBDA tok : tok \notin {"<span class=\"current\">", "</span>"})

CounterText(i, n) == <<ToString(i + 1), " / ", ToString(n)>>

\* What an accepted or rejected goTo(t) is expected to do to the engine.
GoToEffect(t) ==
  IF 0 <= t /\ t < docSections /\ t # currentIndex /\ ~isTransitioning
    THEN /\ isTransitioning' = TRUE
         /\ active' = active \ {currentIndex}
         /\ timers' = timers \cup {ShowTimer(t)}
         /\ UNCHANGED <<currentIndex, fillWidth, counterHTML, animated>>
    ELSE UNCHANGED navVars

NextEffect ==
  IF ~isTransitioning /\ currentIndex < docSections - 1
    THEN GoToEffect(currentIndex + 1)
    ELSE UNCHANGED navVars

PrevEffect ==
  IF ~isTransitioning /\ currentIndex > 0
    THEN GoToEffect(currentIndex - 1)
    ELSE UNCHANGED navVars

RequestOps == {"next", "prev", "goTo", "keydown", "click", "touchend"}

\* C1: after initialisation with at least one section exactly one section
\* is active, except between the deactivation of an accepted goTo and its
\* first timer, where none is; never two or more.
C1_SingleActive ==
  Ready => IF ShowPending
             THEN active = {}
             ELSE Cardinality(active) = 1

C1_Witness ==
  /\ Ready
  /\ lastCall.op = "timerShow"
  /\ active = {2}
  /\ isTransitioning

\* C2: after initialisation with n >= 1 sections, 0 <= currentIndex <= n-1
\* in every reachable state, whatever targets goTo is called with.
C2_RangeInvariant ==
  Ready => currentIndex \in 0 .. (docSections - 1)

C2_Witness ==
  /\ Ready
  /\ lastCall.op = "goTo"
  /\ lastCall.t >= docSections
  /\ ~isTransitioning
  /\ currentIndex = docSections - 1
  /\ docSections >= 2

\* C3: a request issued while the transition lock is held is dropped (it
\* changes nothing, now or later): when the lock clears, currentIndex is
\* the target of the request that took the lock, and for a next() issued
\* at index i that is i+1.
C3_DebounceDrop ==
  [][ /\ (isTransitioning /\ lastCall'.op \in RequestOps)
          => (UNCHANGED navVars /\ UNCHANGED <<pendingTarget, req>>)
      /\ (Ready /\ lastCall'.op = "timerUnlock")
          => /\ currentIndex' = pendingTarget
             /\ req.kind = "next" => currentIndex' = req.from + 1
    ]_vars

C3_Witness ==
  /\ Ready
  /\ isTransitioning
  /\ ShowPending
  /\ lastCall.op = "next"
  /\ outcome = "ignored"
  /\ req.kind = "next"

\* C4: wherever the widgets exist, after initialisation the counter text
\* is "{i+1} / {n}" and the progress width is (i+1)/n*100 percent for the
\* current value i of currentIndex: they never lag or run ahead.
C4_ProjectionConsistency ==
  Ready =>
    /\ hasCounter =>
         TextContent(counterHTML) = CounterText(currentIndex, docSections)
    /\ hasFill =>
         /\ Len(fillWidth) = 2
         /\ fillWidth[1] * docSections = (currentIndex + 1) * 100 * fillWidth[2]

C4_Witness ==
  /\ Ready
  /\ hasCounter
  /\ hasFill
  /\ docSections = 3
  /\ currentIndex = 1
  /\ lastCall.op = "timerShow"
  /\ fillWidth = <<200, 3>>

\* C5: prev() at index 0 and next() at index n-1 leave the whole engine
\* state unchanged (index, lock, active flags, widgets, timers).
C5_IdempotentBoundary ==
  [][ (/\ Ready
       /\ \/ lastCall'.method = "prev" /\ currentIndex = 0
          \/ lastCall'.method = "next" /\ currentIndex = docSections - 1)
      => /\ UNCHANGED navVars
         /\ error' = "none" ]_vars

C5_Witness ==
  /\ Ready
  /\ docSections >= 2
  /\ lastCall.op = "next"
  /\ currentIndex = docSections - 1
  /\ ~isTransitioning
  /\ timers = {}
  /\ outcome = "ignored"

\* C6: after initialisation goTo(t) starts a transition only if
\* 0 <= t < n, t # currentIndex and no transition is in flight; otherwise
\* it is a silent no-op: no error, no timer, nothing changed.
C6_GoToValidation ==
  [][ (phase = "ready" /\ lastCall'.op = "goTo")
      => LET t == lastCall'.t
             valid == /\ 0 <= t
                      /\ t < docSections
                      /\ t # currentIndex
                      /\ ~isTransitioning
         IN /\ ~valid => /\ UNCHANGED navVars
                         /\ error' = "none"
                         /\ outcome' = "ignored"
            /\ (outcome' = "accepted" \/ timers' # timers) => valid ]_vars

C6_Witness ==
  /\ Ready
  /\ lastCall.op = "goTo"
  /\ lastCall.t \in 0 .. (docSections - 1)
  /\ lastCall.t # currentIndex
  /\ isTransitioning
  /\ outcome = "ignored"
  /\ error = "none"

\* C7: under fair firing of the timers every accepted goTo completes:
\* whenever the lock is taken it is eventually released with currentIndex
\* at the requested target and that section active.
C7_TransitionCompletes ==
  \A t \in Targets :
    (isTransitioning /\ pendingTarget = t)
      ~> (~isTransitioning /\ currentIndex = t /\ t \in active)

\* C7 restricted to transitions whose first timer was scheduled.
C7_ScheduledCompletes ==
  \A t \in Targets :
    (isTransitioning /\ pendingTarget = t /\ timers # {})
      ~> (~isTransitioning /\ currentIndex = t /\ t \in active)

\* The settled index a request of the given kind issued at index i yields.
Min(a, b) == IF a < b THEN a ELSE b
Max(a, b) == IF a > b THEN a ELSE b

Settled(kind, i, n) ==
  CASE kind = "next"  -> Min(i + 1, n - 1)
    [] kind = "prev"  -> Max(i - 1, 0)
    [] kind = "first" -> 0
    [] kind = "last"  -> n - 1

\* C8: for requests issued while the lock is clear the settled index is
\* next -> min(i+1, n-1), prev -> max(i-1, 0), jump-to-first -> 0,
\* jump-to-last -> n-1 and the counter shows it; with 5 sections the
\* accepted actions next, next, jump-to-last, prev from index 0 yield
\* 1, 2, 4, 3 and "2 / 5", "3 / 5", "5 / 5", "4 / 5".
C8_SequentialSemantics ==
  /\ (Ready /\ ~isTransitioning /\ req.kind \in {"next", "prev", "first", "last"})
       => /\ currentIndex = Settled(req.kind, req.from, docSections)
          /\ hasCounter =>
               TextContent(counterHTML) =
                 CounterText(Settled(req.kind, req.from, docSections), docSections)
  /\ (Ready /\ docSections = ScriptSections /\ scenario \in 1 .. 4
        /\ ~ShowPending)
       => /\ currentIndex = ScriptIndex[scenario]
          /\ hasCounter =>
               TextContent(counterHTML) = <<ScriptText[scenario], " / ", "5">>

C8_Witness ==
  /\ Ready
  /\ docSections = ScriptSections
  /\ scenario = 4
  /\ ~isTransitioning
  /\ hasCounter
  /\ currentIndex = 3
  /\ req.kind = "prev"

AdvanceKeys == {"ArrowRight", "ArrowDown", " ", "PageDown"}
RetreatKeys == {"ArrowLeft", "ArrowUp", "PageUp"}

\* C9: ArrowRight, ArrowDown, Space, PageDown act as next(); ArrowLeft,
\* ArrowUp, PageUp as prev(); Home as goTo(0); End as goTo(n-1); f/F only
\* toggles fullscreen; any other key changes nothing; the browser default
\* is suppressed for the navigation keys, accepted or not.
C9_KeyboardTable ==
  [][ lastCall'.op = "keydown"
      => LET key == lastCall'.key
         IN /\ key \in AdvanceKeys => NextEffect /\ defaultPrevented'
            /\ key \in RetreatKeys => PrevEffect /\ defaultPrevented'
            /\ key = "Home" => GoToEffect(0) /\ defaultPrevented'
            /\ key = "End" => GoToEffect(docSections - 1) /\ defaultPrevented'
            /\ key \in {"f", "F"}
                 => /\ UNCHANGED navVars
                    /\ fullscreen' = IF lastCall'.granted
                                       THEN ~fullscreen ELSE fullscreen
            /\ key \notin {"f", "F"} => UNCHANGED fullscreen
            /\ key \notin AdvanceKeys \cup RetreatKeys \cup {"Home", "End", "f", "F"}
                 => UNCHANGED navVars /\ ~defaultPrevented'
    ]_vars

C9_Witness ==
  /\ Ready
  /\ lastCall.op = "keydown"
  /\ lastCall.key = "PageUp"
  /\ outcome = "accepted"
  /\ defaultPrevented
  /\ active = {}
  /\ timers = {ShowTimer(currentIndex - 1)}

\* C10: a click on a link, button, input, select or textarea never
\* navigates; any other click is next() when x > 0.65*w, prev() when
\* x < 0.35*w and nothing when 0.35*w <= x <= 0.65*w.
C10_ClickZones ==
  [][ lastCall'.op = "click"
      => LET w == lastCall'.w
             x == lastCall'.x
         IN IF lastCall'.inter THEN UNCHANGED navVars
            ELSE IF x * 100 > 65 * w THEN NextEffect
            ELSE IF x * 100 < 35 * w THEN PrevEffect
            ELSE UNCHANGED navVars
    ]_vars

\* A click exactly on the 65% boundary, in a state where next() would act.
C10_Witness ==
  /\ Ready
  /\ lastCall.op = "click"
  /\ lastCall.w = 1000
  /\ lastCall.x = 650
  /\ ~lastCall.inter
  /\ ~isTransitioning
  /\ currentIndex < docSections - 1
  /\ outcome = "none"

\* C11: a touch from (sx, sy) to (ex, ey) navigates if and only if
\* |sx-ex| > |sy-ey| and |sx-ex| > 50, both strict; then it is exactly one
\* next() when the finger moved left (sx > ex) and one prev() when it moved
\* right; a displacement of exactly 50, or |dx| = |dy|, does nothing.
C11_TouchSwipe ==
  [][ lastCall'.op = "touchend"
      => LET dx == startX - lastCall'.x
             dy == startY - lastCall'.y
             adx == IF dx < 0 THEN 0 - dx ELSE dx
             ady == IF dy < 0 THEN 0 - dy ELSE dy
         IN IF adx > ady /\ adx > 50
              THEN IF startX > lastCall'.x THEN NextEffect ELSE PrevEffect
              ELSE UNCHANGED navVars
    ]_vars

\* A release at a displacement of exactly 50, where next() would act.
C11_Witness ==
  /\ Ready
  /\ lastCall.op = "touchend"
  /\ startX = 300 /\ startY = 200
  /\ lastCall.x = 250 /\ lastCall.y = 200
  /\ ~isTransitioning
  /\ currentIndex < docSections - 1
  /\ outcome = "none"

C13_FullscreenToggle ==
  [][ lastCall'.method = "fullscreen"
      => /\ fullscreen' = IF lastCall'.granted THEN ~fullscreen ELSE fullscreen
         /\ error' = "none"
         /\ UNCHANGED navVars
    ]_vars

\* C13 on the entering path only, where the promise has a catch handler.
C13_EnterSwallowed ==
  [][ (lastCall'.method = "fullscreen" /\ ~fullscreen)
      => /\ fullscreen' = lastCall'.granted
         /\ error' = "none"
         /\ UNCHANGED navVars
    ]_vars

UnlockPending == \E tm \in timers : tm.kind = "unlock"

\* One step of the program seen as a step of the transition phases.
PhaseStep ==
  \* acceptance: Idle -> Deactivating, index and widgets still old
  /\ outcome' = "accepted"
       => /\ ~isTransitioning /\ timers = {}
          /\ isTransitioning'
          /\ timers' = {ShowTimer(pendingTarget')}
          /\ active' = active \ {currentIndex}
          /\ UNCHANGED <<currentIndex, fillWidth, counterHTML>>
  \* first timer: Deactivating -> Activating, one atomic step
  /\ lastCall'.op = "timerShow"
       => /\ isTransitioning /\ isTransitioning'
          /\ currentIndex' = pendingTarget
          /\ active' = active \cup {pendingTarget}
          /\ hasFill => fillWidth' = Percent(pendingTarget, docSections)
          /\ hasCounter
               => counterHTML' = CounterMarkup(pendingTarget, docSections)
          /\ ~ShowPending' /\ UnlockPending'
  \* the index changes in no other step
  /\ currentIndex' # currentIndex => lastCall'.op = "timerShow"
  \* second timer: Activating -> Idle
  /\ (isTransitioning /\ ~isTransitioning')
       => /\ lastCall'.op = "timerUnlock"
          /\ UnlockPending /\ timers' = {}
          /\ currentIndex = pendingTarget
  /\ UnlockPending' => (lastCall'.op = "timerShow" \/ UnlockPending)
  \* the lock is held exactly while a timer of the transition is pending
  /\ isTransitioning' <=> (timers' # {})

\* C15: every accepted goTo passes Idle -> Deactivating -> Activating ->
\* Idle in that order, the lock being held exactly when the phase is not
\* Idle: acceptance takes the lock and deactivates the current section
\* while index and widgets are still old; the first timer activates the
\* target, assigns currentIndex and recomputes the widgets in one step and
\* schedules the second timer; only the second timer releases the lock.
C15_PhaseOrdering == [][PhaseStep]_vars

\* C15 for the runs in which no request was accepted before initialisation.
C15_PhaseOrderingReady ==
  [][ (phase' = "ready" /\ (isTransitioning <=> timers # {})) => PhaseStep ]_vars

\* C16: currentIndex is changed only by the first timer callback of an
\* accepted goTo, which sets it to that goTo's target; counter and progress
\* change only in that step and at initialisation; handlers, next(),
\* prev(), toggleFullscreen and the lock release leave all three unchanged.
C16_SingleWriter ==
  [][ /\ currentIndex' # currentIndex
           => /\ lastCall'.op = "timerShow"
              /\ currentIndex' = pendingTarget
      /\ (fillWidth' # fillWidth \/ counterHTML' # counterHTML)
           => lastCall'.op \in {"timerShow", "DOMContentLoaded"}
      /\ lastCall'.op \in (RequestOps \cup {"touchstart", "toggleFullscreen",
                                            "timerUnlock"})
           => UNCHANGED <<currentIndex, fillWidth, counterHTML>>
    ]_vars

C16_Witness ==
  /\ Ready
  /\ hasFill /\ hasCounter
  /\ lastCall.op = "keydown"
  /\ lastCall.key = "End"
  /\ outcome = "accepted"
  /\ currentIndex = 0
  /\ pendingTarget = docSections - 1
  /\ fillWidth = Percent(0, docSections)

\* C17: before the section list is captured every next(), prev() and
\* goTo(t) is a silent no-op: no error, the lock is not taken, no timer is
\* scheduled and currentIndex stays 0.
C17_PreInitNoOp ==
  [][ (phase = "constructed" /\ lastCall'.op \in {"next", "prev", "goTo"})
      => /\ error' = "none"
         /\ ~isTransitioning'
         /\ timers' = {}
         /\ currentIndex' = 0
    ]_vars

\* C18: after initialisation with n >= 1 sections the set of active
\* sections is {sections[currentIndex]}, or empty only while the lock is
\* held and the first timer has not fired; with the lock clear the active
\* section, the counter and the progress bar show the same index.
C18_ActiveMatchesIndex ==
  Ready =>
    /\ \/ active = {sections[currentIndex + 1]}
       \/ active = {} /\ isTransitioning /\ ShowPending
    /\ ~isTransitioning =>
         /\ active = {sections[currentIndex + 1]}
         /\ \A a \in active :
              /\ hasCounter => TextContent(counterHTML)[1] = ToString(a + 1)
              /\ hasFill => fillWidth[1] * docSections = (a + 1) * 100 * fillWidth[2]

C18_Witness ==
  /\ Ready
  /\ lastCall.op = "timerUnlock"
  /\ ~isTransitioning
  /\ currentIndex = 1
  /\ active = {1}
  /\ hasCounter /\ hasFill
  /\ docSections = 3

\* The slides a chapter's deck must hold: for the first k files of the
\* list, in order, the sections 0 .. n-1 of each file, in order.
RECURSIVE SlidesOfFiles(_, _)
SlidesOfFiles(files, k) ==
  IF k = 0
    THEN <<>>
    ELSE SlidesOfFiles(files, k - 1)
           \o [j \in 1 .. docs[files[k]] |-> <<files[k], {j - 1}>>]

\* What the slides of a deck show: the file and its active sections.
Shown(slides) ==
  [k \in DOMAIN slides |-> <<slides[k].file, slides[k].active>>]

\* C14: the decks are written one per chapter in chapter order, and the
\* deck of a chapter holds exactly one slide per section of each of the
\* chapter's files, ordered by file position and then by section index,
\* each slide showing that section of that file and no other; a run without
\* failure ends with one deck for every chapter.
C14_ExportOrdering ==
  /\ Len(decks) <= Len(CHAPTERS)
  /\ \A d \in DOMAIN decks :
       /\ decks[d].name = CHAPTERS[d].name
       /\ Shown(decks[d].slides)
            = SlidesOfFiles(CHAPTERS[d].files, Len(CHAPTERS[d].files))
  /\ (pc = "done" /\ failure = "none") => Len(decks) = Len(CHAPTERS)

C14_Witness ==
  /\ pc = "done"
  /\ failure = "none"
  /\ Len(decks) = Len(CHAPTERS)
  /\ docs[1] = 1 /\ docs[2] = 2 /\ docs[3] = 0
  /\ Len(decks[1].slides) = 4
  /\ Len(decks[2].slides) = 5

\* The three observable parts of a document state.
DOMOf(p) == [active |-> p.active, fill |-> p.fill, counter |-> p.counter]

EngineDOM ==
  [active |-> active, fill |-> fillWidth, counter |-> counterHTML]

\* The document of n sections after the export has forced the sections
\* 0 .. idx one after the other, starting from the loaded document.
RECURSIVE ForcedUpTo(_, _)
ForcedUpTo(idx, n) ==
  IF idx = 0
    THEN ForceSection(LoadedPage(1, n), 0, n)
    ELSE ForceSection(ForcedUpTo(idx - 1, n), idx, n)

\* C19: for a document of n sections and every index i the engine can
\* settle on (after initialisation for 0, after the first timer of a goTo
\* otherwise), the state the export forces before capturing section i has
\* the same active set, progress width and counter markup as the engine's:
\* exactly section i active, width (i+1)/n*100 percent, counter i+1 of n.
C19_ExportMatchesEngine ==
  (Ready /\ ~ShowPending)
    => /\ DOMOf(ForcedUpTo(currentIndex, docSections)) = EngineDOM
       /\ ForcedUpTo(currentIndex, docSections).active = {currentIndex}
       /\ hasFill
            => ForcedUpTo(currentIndex, docSections).fill[1] * docSections
                 = (currentIndex + 1) * 100
                     * ForcedUpTo(currentIndex, docSections).fill[2]
       /\ hasCounter
            => TextContent(ForcedUpTo(currentIndex, docSections).counter)
                 = CounterText(currentIndex, docSections)

C19_Witness ==
  /\ Ready
  /\ lastCall.op = "timerUnlock"
  /\ ~isTransitioning
  /\ currentIndex = 2
  /\ docSections = 3
  /\ hasFill /\ hasCounter
  /\ EngineDOM = DOMOf(ForceSection(LoadedPage(1, 3), 2, 3))

====
